---- MODULE Spec2Model ----
(***************************************************************************)
(* Model of the SC-02C lights HAL module (src/lights.c).                   *)
(*                                                                         *)
(* Caller threads of the host process invoke open_lights, the set_light    *)
(* handler of a device handle, and close_lights.  Every statement that     *)
(* touches process-wide state (g_init, g_lock, g_backlight, g_buttons,     *)
(* g_notification, already_warned, the heap, the sysfs files) is a step    *)
(* of its own; purely local computation is folded into the step that       *)
(* precedes it.                                                            *)
(*                                                                         *)
(* An unsigned 32-bit value is the record [hi, lo] of its two 16-bit       *)
(* halves; an int is an integer in -2^31 .. 2^31-1.                        *)
(***************************************************************************)
EXTENDS Integers, Sequences, FiniteSets, TLC

(***************************************************************************)
(* Bounds of the model.                                                    *)
(***************************************************************************)
NumThreads == 2
MaxHandles == 2
MaxCalls == 4

Threads == 1..NumThreads
Addrs == 1..MaxHandles
NULL == 0

(***************************************************************************)
(* Program constants.                                                      *)
(***************************************************************************)
BLN_LIGHT_ON == 1
BLN_LIGHT_OFF == 2
BLN_NOTIFY_ON == 1
BLN_NOTIFY_OFF == 0
CM7_ENABLE_BL == 1
CM7_DISABLE_BL == 2
EINVAL == 22

LCD_FILE == "/sys/class/backlight/pwm-backlight/brightness"
KEYBOARD_FILE == "/sys/class/leds/keyboard-backlight/brightness"
BUTTON_FILE == "/sys/class/misc/melfas_touchkey/brightness"
NOTIFICATION_FILE == "/sys/class/misc/backlightnotification/notification_led"
CM7_NOTIFICATION_FILE == "/sys/class/misc/notification/led"
Files == {LCD_FILE, KEYBOARD_FILE, BUTTON_FILE, NOTIFICATION_FILE,
          CM7_NOTIFICATION_FILE}

LIGHT_ID_BACKLIGHT == "backlight"
LIGHT_ID_BUTTONS == "buttons"
LIGHT_ID_NOTIFICATIONS == "notifications"

\* pthread_once_t values: PTHREAD_ONCE_INIT, init routine running, done.
PTHREAD_ONCE_INIT == 0
ONCE_IN_PROGRESS == 1
ONCE_DONE == 2

\* pthread_mutex_t value of an unlocked mutex (otherwise: the owning thread).
PTHREAD_MUTEX_INITIALIZER == 0

(***************************************************************************)
(* Inputs of the environment.                                              *)
(***************************************************************************)
\* Device names passed to open: the three recognized ones and two others.
Names == {LIGHT_ID_BACKLIGHT, LIGHT_ID_BUTTONS, LIGHT_ID_NOTIFICATIONS,
          "keyboard", "battery"}

U32(h, l) == [hi |-> h, lo |-> l]

\* Colors passed in light_state_t.color:
\* 0x00000000, 0x00FFFFFF, 0xFFFFFFFF, 0xFF000000, 0x00FF0000, 0xFFFFFF1B.
Colors == {U32(0, 0), U32(255, 65535), U32(65535, 65535), U32(65280, 0),
           U32(255, 0), U32(65535, 65307)}

\* errno values an open(2) and a write(2) of a sysfs file fail with.
OpenErrnos == {2, 13}
WriteErrnos == {5}

(***************************************************************************)
(* 32-bit arithmetic.                                                      *)
(***************************************************************************)
\* unsigned + unsigned, modulo 2^32
AddU32(a, b) ==
    LET l == a.lo + b.lo
        h == a.hi + b.hi + (l \div 65536)
    IN  U32(h % 65536, l % 65536)

\* conversion of a non-negative int to unsigned
IntToU32(i) == U32(i \div 65536, i % 65536)

\* conversion of an unsigned to int (two's complement)
U32ToInt(u) ==
    IF u.hi >= 32768 THEN (u.hi - 65536) * 65536 + u.lo
    ELSE u.hi * 65536 + u.lo

IsZeroU32(u) == u.hi = 0 /\ u.lo = 0

(***************************************************************************)
(* Color/brightness codec.                                                 *)
(***************************************************************************)
\* Mutant: only the RGB bits decide.
is_lit_RgbOnly(state) == (state.color.hi % 256) * 65536 + state.color.lo

\* return state->color & 0xffffffff;   (as int)
is_lit(state) == U32ToInt(U32(state.color.hi % 65536, state.color.lo % 65536))

\* Mutant: the weights of red and blue are exchanged.
rgb_to_brightness_Swapped(state) ==
    LET color == (state.color.hi % 256) * 65536 + state.color.lo
    IN  ((29 * ((color \div 65536) % 256))
         + (150 * ((color \div 256) % 256))
         + (77 * (color % 256))) \div 256

\* int color = state->color & 0x00ffffff;
\* return (77*((color>>16)&0xff) + 150*((color>>8)&0xff) + 29*(color&0xff)) >> 8;
rgb_to_brightness(state) ==
    LET color == (state.color.hi % 256) * 65536 + state.color.lo
    IN  ((77 * ((color \div 65536) % 256))
         + (150 * ((color \div 256) % 256))
         + (29 * (color % 256))) \div 256

(***************************************************************************)
(* Formatting done by write_int, and the reading of a control file.        *)
(***************************************************************************)
DigitChars == <<"0", "1", "2", "3", "4", "5", "6", "7", "8", "9">>

RECURSIVE Itoa(_)
Itoa(n) ==
    IF n < 0 THEN <<"-">> \o Itoa(0 - n)
    ELSE IF n < 10 THEN <<DigitChars[n + 1]>>
    ELSE Itoa(n \div 10) \o <<DigitChars[(n % 10) + 1]>>

\* sprintf(buffer, "%d\n", value)
sprintf(value) == Itoa(value) \o <<"\n">>

\* The integer a control file holds: the leading decimal digits of the bytes
\* last written to it (-1 when there are none).
DigitValue(ch) == (CHOOSE i \in 1..10 : DigitChars[i] = ch) - 1
IsDigit(ch) == \E i \in 1..10 : DigitChars[i] = ch

RECURSIVE ParseDigits(_, _)
ParseDigits(bytes, acc) ==
    IF bytes = <<>> \/ ~IsDigit(Head(bytes)) THEN acc
    ELSE ParseDigits(Tail(bytes), acc * 10 + DigitValue(Head(bytes)))

ParseInt(bytes) ==
    IF bytes = <<>> \/ ~IsDigit(Head(bytes)) THEN -1
    ELSE ParseDigits(bytes, 0)

(***************************************************************************)
(* State.                                                                  *)
(***************************************************************************)
VARIABLES
    g_init,          \* pthread_once_t g_init
    g_lock,          \* pthread_mutex_t g_lock: unlocked, or the owning thread
    g_notification,  \* struct light_state_t g_notification
    g_backlight,     \* int g_backlight
    g_buttons,       \* int g_buttons
    already_warned,  \* static int already_warned of write_int
    heap,            \* malloc'ed light_device_t objects, by address
    files,           \* bytes last written to each control file
    fds,             \* open file descriptors of the process
    warnings,        \* number of LOGE("write_int failed to open ...") emitted
    initCount,       \* number of executions of init_globals
    pc,              \* position of each thread
    op,              \* function each thread executes
    name,            \* open_lights: argument name
    set_light,       \* open_lights: local set_light
    device,          \* open_lights: *device of the caller
    dev,             \* close_lights: argument dev
    state,           \* set_light_*: argument *state
    brightness,      \* set_light_backlight / set_light_notifications: local
    on,              \* set_light_buttons: local
    err,             \* set_light_*: local err
    ra,              \* write_int: where the call returns to
    path,            \* write_int: argument path
    value,           \* write_int: argument value
    fd,              \* write_int: local fd
    amt,             \* write_int: local amt
    errno,           \* errno of the thread
    wlog,            \* write_int calls completed by the running call:
                     \* arguments, whether open succeeded, amt, result
    retval,          \* value returned by the running call
    calls,           \* number of calls made by the callers so far
    writesOk         \* every write_int call so far opened its file and wrote
                     \* every byte of the value

sharedVars == <<g_init, g_lock, g_notification, g_backlight, g_buttons,
                already_warned, heap, files, fds, warnings, initCount>>
openVars == <<name, set_light, device>>
lightVars == <<state, brightness, on>>
writeVars == <<ra, path, value, fd, amt, errno>>
vars == <<calls, writesOk, sharedVars, pc, op, openVars, dev, lightVars, err, writeVars,
          wlog, retval>>

Free == [set_light |-> "", close |-> ""]
Live(h) == {a \in Addrs : h[a] # Free}
NoState == [color |-> U32(0, 0)]

Init ==
    /\ g_init = PTHREAD_ONCE_INIT
    /\ g_lock = PTHREAD_MUTEX_INITIALIZER
    /\ g_notification = NoState
    /\ g_backlight = 255
    /\ g_buttons = 0
    /\ already_warned = 0
    /\ heap = [a \in Addrs |-> Free]
    /\ files = [f \in Files |-> <<>>]
    /\ fds = {}
    /\ warnings = 0
    /\ initCount = 0
    /\ pc = [t \in Threads |-> "idle"]
    /\ op = [t \in Threads |-> ""]
    /\ name = [t \in Threads |-> ""]
    /\ set_light = [t \in Threads |-> ""]
    /\ device = [t \in Threads |-> NULL]
    /\ dev = [t \in Threads |-> NULL]
    /\ state = [t \in Threads |-> NoState]
    /\ brightness = [t \in Threads |-> 0]
    /\ on = [t \in Threads |-> 0]
    /\ err = [t \in Threads |-> 0]
    /\ ra = [t \in Threads |-> ""]
    /\ path = [t \in Threads |-> ""]
    /\ value = [t \in Threads |-> 0]
    /\ fd = [t \in Threads |-> -1]
    /\ amt = [t \in Threads |-> 0]
    /\ errno = [t \in Threads |-> 0]
    /\ wlog = [t \in Threads |-> <<>>]
    /\ retval = [t \in Threads |-> 0]
    /\ calls = 0
    /\ writesOk = TRUE

(***************************************************************************)
(* Library primitives.                                                     *)
(***************************************************************************)
\* Mutant: a lock that never blocks.
pthread_mutex_lock_NoWait(t) == g_lock' = t

\* pthread_mutex_lock(&g_lock): blocks while another thread owns the mutex.
pthread_mutex_lock(t) ==
    /\ g_lock = PTHREAD_MUTEX_INITIALIZER
    /\ g_lock' = t

\* pthread_mutex_unlock(&g_lock)
pthread_mutex_unlock(t) == g_lock' = PTHREAD_MUTEX_INITIALIZER

\* pthread_mutex_init(&g_lock, NULL): the mutex becomes unlocked; initializing
\* a mutex that a thread owns is undefined, the owner may or may not survive.
pthread_mutex_init ==
    g_lock' \in {PTHREAD_MUTEX_INITIALIZER, g_lock}

\* Mutant: every caller starts the init routine.
OnceMayStart_Always == TRUE

\* Mutant: the init routine is started whenever it has not completed.
OnceMayStart_NotDone == g_init # ONCE_DONE

\* pthread_once(&g_init, ...): may the caller start the init routine?
OnceMayStart == g_init = PTHREAD_ONCE_INIT

\* pthread_once(&g_init, ...): may the caller return without running it?
OnceMayPass == g_init = ONCE_DONE

\* malloc(sizeof(struct light_device_t)): an address that is not allocated,
\* or NULL when no memory is left.
Malloc(h) == (Addrs \ Live(h)) \cup {NULL}

\* The process is killed by SIGSEGV: every thread stops where it is and the
\* kernel closes the descriptors of the process.
Segfault ==
    /\ pc' = [u \in Threads |-> "crashed"]
    /\ fds' = {}

\* open(path, O_RDWR): the lowest unused descriptor.
LowestFd(used) == CHOOSE n \in 3..(3 + Cardinality(used)) :
                      /\ n \notin used
                      /\ \A m \in 3..(n - 1) : m \in used

(***************************************************************************)
(* open_lights                                                             *)
(***************************************************************************)
\* Mutant: the final else branch falls through to the notifications handler.
HandlerFor_NoElse(n) ==
    IF n = LIGHT_ID_BACKLIGHT THEN "set_light_backlight"
    ELSE IF n = LIGHT_ID_BUTTONS THEN "set_light_buttons"
    ELSE "set_light_notifications"

\* The handler open_lights selects for a name ("" when none matches).
HandlerFor(n) ==
    IF n = LIGHT_ID_BACKLIGHT THEN "set_light_backlight"
    ELSE IF n = LIGHT_ID_BUTTONS THEN "set_light_buttons"
    ELSE IF n = LIGHT_ID_NOTIFICATIONS THEN "set_light_notifications"
    ELSE ""

\* A caller enters open_lights(module, n, &device), device holding NULL, and
\* lines 190-198 select the handler.  A recognized name is passed only while
\* the heap has room for the handle.
OpenCall(t, n, B) ==
    /\ pc[t] = "idle"
    /\ calls < B
    /\ calls' = calls + 1
    /\ HandlerFor(n) # ""
    /\ Cardinality(Live(heap))
         + Cardinality({u \in Threads : pc[u] \in {"open_once", "init_globals",
                                                    "once_end", "open_alloc"}})
       < MaxHandles
    /\ op' = [op EXCEPT ![t] = "open_lights"]
    /\ name' = [name EXCEPT ![t] = n]
    /\ set_light' = [set_light EXCEPT ![t] = HandlerFor(n)]
    /\ pc' = [pc EXCEPT ![t] = "open_once"]
    /\ UNCHANGED <<writesOk, sharedVars, device, dev, lightVars, err, writeVars, wlog,
                   retval>>

\* A caller enters open_lights with a name that lines 190-198 do not match:
\* lines 199-201 return -EINVAL.
OpenCallNoMatch(t, n, B) ==
    /\ pc[t] = "idle"
    /\ calls < B
    /\ calls' = calls + 1
    /\ HandlerFor(n) = ""
    /\ op' = [op EXCEPT ![t] = "open_lights"]
    /\ name' = [name EXCEPT ![t] = n]
    /\ retval' = [retval EXCEPT ![t] = 0 - EINVAL]
    /\ pc' = [pc EXCEPT ![t] = "ret"]
    /\ UNCHANGED <<writesOk, sharedVars, set_light, device, dev, lightVars, err,
                   writeVars, wlog>>

\* line 203: pthread_once finds the control untouched and runs init_globals.
OnceBegin(t) ==
    /\ pc[t] = "open_once"
    /\ OnceMayStart
    /\ g_init' = ONCE_IN_PROGRESS
    /\ pc' = [pc EXCEPT ![t] = "init_globals"]
    /\ UNCHANGED <<calls, writesOk, g_lock, g_notification, g_backlight, g_buttons,
                   already_warned, heap, files, fds, warnings, initCount,
                   op, openVars, dev, lightVars, err, writeVars, wlog, retval>>

\* lines 72-76: init_globals
InitGlobals(t) ==
    /\ pc[t] = "init_globals"
    /\ pthread_mutex_init
    /\ initCount' = IF initCount < 2 THEN initCount + 1 ELSE initCount
    /\ pc' = [pc EXCEPT ![t] = "once_end"]
    /\ UNCHANGED <<calls, writesOk, g_init, g_notification, g_backlight, g_buttons,
                   already_warned, heap, files, fds, warnings,
                   op, openVars, dev, lightVars, err, writeVars, wlog, retval>>

\* line 203: init_globals returned; pthread_once marks the control done.
OnceEnd(t) ==
    /\ pc[t] = "once_end"
    /\ g_init' = ONCE_DONE
    /\ pc' = [pc EXCEPT ![t] = "open_alloc"]
    /\ UNCHANGED <<calls, writesOk, g_lock, g_notification, g_backlight, g_buttons,
                   already_warned, heap, files, fds, warnings, initCount,
                   op, openVars, dev, lightVars, err, writeVars, wlog, retval>>

\* line 203: pthread_once returns at once when the control is done; it
\* blocks while another thread runs the init routine.
OncePass(t) ==
    /\ pc[t] = "open_once"
    /\ OnceMayPass
    /\ pc' = [pc EXCEPT ![t] = "open_alloc"]
    /\ UNCHANGED <<calls, writesOk, sharedVars, op, openVars, dev, lightVars, err, writeVars,
                   wlog, retval>>

\* lines 205-206: malloc returns NULL, which the code does not test;
\* memset(NULL, 0, sizeof(*dev)) stores through the null pointer and the
\* process is killed.
OpenAllocNull(t) ==
    /\ pc[t] = "open_alloc"
    /\ NULL \in Malloc(heap)
    /\ Segfault
    /\ UNCHANGED <<calls, writesOk, g_init, g_lock, g_notification, g_backlight, g_buttons,
                   already_warned, heap, files, warnings, initCount,
                   op, openVars, dev, lightVars, err, writeVars, wlog, retval>>

\* lines 205-215: malloc returns an object; fill the device, publish it,
\* return 0.
OpenAlloc(t) ==
    /\ pc[t] = "open_alloc"
    /\ \E a \in Malloc(heap) \ {NULL} :
          /\ heap' = [heap EXCEPT ![a] = [set_light |-> set_light[t],
                                          close |-> "close_lights"]]
          /\ device' = [device EXCEPT ![t] = a]
    /\ retval' = [retval EXCEPT ![t] = 0]
    /\ pc' = [pc EXCEPT ![t] = "ret"]
    /\ UNCHANGED <<calls, writesOk, g_init, g_lock, g_notification, g_backlight, g_buttons,
                   already_warned, files, fds, warnings, initCount,
                   op, name, set_light, dev, lightVars, err, writeVars, wlog>>

(***************************************************************************)
(* close_lights                                                            *)
(***************************************************************************)
\* Mutant: close_lights puts the recorded levels back to their initial values.
CloseLights_Reset(t, d, B) ==
    /\ pc[t] = "idle"
    /\ calls < B
    /\ calls' = calls + 1
    /\ d \in {NULL} \cup Live(heap)
    /\ op' = [op EXCEPT ![t] = "close_lights"]
    /\ dev' = [dev EXCEPT ![t] = d]
    /\ heap' = IF d # NULL THEN [heap EXCEPT ![d] = Free] ELSE heap
    /\ g_backlight' = 255
    /\ g_buttons' = 0
    /\ retval' = [retval EXCEPT ![t] = 0]
    /\ pc' = [pc EXCEPT ![t] = "ret"]
    /\ UNCHANGED <<writesOk, g_init, g_lock, g_notification,
                   already_warned, files, fds, warnings, initCount,
                   openVars, lightVars, err, writeVars, wlog>>

\* lines 165-172: a caller invokes close_lights(d), d being NULL or a live
\* handle; a handle is freed, 0 is returned.
CloseLights(t, d, B) ==
    /\ pc[t] = "idle"
    /\ calls < B
    /\ calls' = calls + 1
    /\ d \in {NULL} \cup Live(heap)
    /\ op' = [op EXCEPT ![t] = "close_lights"]
    /\ dev' = [dev EXCEPT ![t] = d]
    /\ heap' = IF d # NULL THEN [heap EXCEPT ![d] = Free] ELSE heap
    /\ retval' = [retval EXCEPT ![t] = 0]
    /\ pc' = [pc EXCEPT ![t] = "ret"]
    /\ UNCHANGED <<writesOk, g_init, g_lock, g_notification, g_backlight, g_buttons,
                   already_warned, files, fds, warnings, initCount,
                   openVars, lightVars, err, writeVars, wlog>>

(***************************************************************************)
(* write_int                                                               *)
(***************************************************************************)
\* A handler calls write_int(p, v); the call returns to position r.
CallWriteInt(t, p, v, r) ==
    /\ path' = [path EXCEPT ![t] = p]
    /\ value' = [value EXCEPT ![t] = v]
    /\ ra' = [ra EXCEPT ![t] = r]
    /\ pc' = [pc EXCEPT ![t] = "wi_open"]
    /\ UNCHANGED <<fd, amt, errno>>

\* write_int returns r to its caller, which assigns it to err.
WriteIntReturn(t, r) ==
    /\ err' = [err EXCEPT ![t] = r]
    /\ wlog' = [wlog EXCEPT ![t] = Append(@, [path |-> path[t],
                                               value |-> value[t],
                                               opened |-> fd[t] >= 0,
                                               amt |-> amt[t],
                                               ret |-> r])]
    /\ pc' = [pc EXCEPT ![t] = ra[t]]
    /\ path' = [path EXCEPT ![t] = ""]
    /\ value' = [value EXCEPT ![t] = 0]
    /\ ra' = [ra EXCEPT ![t] = ""]
    /\ fd' = [fd EXCEPT ![t] = -1]
    /\ amt' = [amt EXCEPT ![t] = 0]
    /\ writesOk' = (writesOk /\ fd[t] >= 0
                             /\ amt[t] = Len(sprintf(value[t])))

\* line 84: open(path, O_RDWR) succeeds
WriteIntOpen(t) ==
    /\ pc[t] = "wi_open"
    /\ fd' = [fd EXCEPT ![t] = LowestFd(fds)]
    /\ fds' = fds \cup {LowestFd(fds)}
    /\ pc' = [pc EXCEPT ![t] = "wi_write"]
    /\ UNCHANGED <<calls, writesOk, g_init, g_lock, g_notification, g_backlight, g_buttons,
                   already_warned, heap, files, warnings, initCount,
                   op, openVars, dev, lightVars, err, ra, path, value, amt,
                   errno, wlog, retval>>

\* Mutant: every failed open is reported.
WarnOnce_Always ==
    /\ warnings' = IF warnings < 2 THEN warnings + 1 ELSE warnings
    /\ already_warned' = 1

\* The one-shot warning of lines 92-95.
WarnOnce ==
    /\ warnings' = IF already_warned = 0 /\ warnings < 2
                   THEN warnings + 1 ELSE warnings
    /\ already_warned' = 1

\* lines 84, 91-97: open fails with errno e
WriteIntOpenFail(t, e) ==
    /\ pc[t] = "wi_open"
    /\ e \in OpenErrnos
    /\ errno' = [errno EXCEPT ![t] = e]
    /\ WarnOnce
    /\ WriteIntReturn(t, 0 - e)
    /\ UNCHANGED <<calls, g_init, g_lock, g_notification, g_backlight, g_buttons,
                   heap, files, fds, initCount,
                   op, openVars, dev, lightVars, retval>>

\* lines 86-88: format the value and write it; write accepts all but k of
\* the bytes
WriteIntWrite(t, k) ==
    /\ pc[t] = "wi_write"
    /\ LET buffer == sprintf(value[t])
           bytes == Len(buffer)
       IN  /\ k \in 0..bytes
           /\ amt' = [amt EXCEPT ![t] = bytes - k]
           /\ files' = IF bytes - k > 0
                       THEN [files EXCEPT
                                ![path[t]] = SubSeq(buffer, 1, bytes - k)]
                       ELSE files
    /\ pc' = [pc EXCEPT ![t] = "wi_close"]
    /\ UNCHANGED <<calls, writesOk, g_init, g_lock, g_notification, g_backlight, g_buttons,
                   already_warned, heap, fds, warnings, initCount,
                   op, openVars, dev, lightVars, err, ra, path, value, fd,
                   errno, wlog, retval>>

\* lines 86-88: write fails with errno e
WriteIntWriteFail(t, e) ==
    /\ pc[t] = "wi_write"
    /\ e \in WriteErrnos
    /\ amt' = [amt EXCEPT ![t] = -1]
    /\ errno' = [errno EXCEPT ![t] = e]
    /\ pc' = [pc EXCEPT ![t] = "wi_close"]
    /\ UNCHANGED <<calls, writesOk, sharedVars, op, openVars, dev, lightVars, err, ra, path,
                   value, fd, wlog, retval>>

\* Mutant: the descriptor is left open.
CloseFd_Leak(t) == fds' = fds

\* close(fd)
CloseFd(t) == fds' = fds \ {fd[t]}

\* lines 89-90: close(fd); return amt == -1 ? -errno : 0;
WriteIntClose(t) ==
    /\ pc[t] = "wi_close"
    /\ CloseFd(t)
    /\ WriteIntReturn(t, IF amt[t] = -1 THEN 0 - errno[t] ELSE 0)
    /\ UNCHANGED <<calls, g_init, g_lock, g_notification, g_backlight, g_buttons,
                   already_warned, heap, files, warnings, initCount,
                   op, openVars, dev, lightVars, errno, retval>>

(***************************************************************************)
(* set_light_backlight                                                     *)
(***************************************************************************)
\* A caller invokes h->set_light(h, &state) with state.color = c on a live
\* backlight handle; lines 114-115 compute the brightness.
BacklightCall(t, h, c, B) ==
    /\ pc[t] = "idle"
    /\ calls < B
    /\ calls' = calls + 1
    /\ h \in Live(heap)
    /\ heap[h].set_light = "set_light_backlight"
    /\ op' = [op EXCEPT ![t] = "set_light_backlight"]
    /\ state' = [state EXCEPT ![t] = [color |-> c]]
    /\ brightness' = [brightness EXCEPT ![t] = rgb_to_brightness([color |-> c])]
    /\ pc' = [pc EXCEPT ![t] = "bl_lock"]
    /\ UNCHANGED <<writesOk, sharedVars, openVars, dev, on, err, writeVars, wlog, retval>>

\* Mutant: set_light_backlight goes on without taking the lock.
BacklightLock_NoLock(t) ==
    /\ pc[t] = "bl_lock"
    /\ pc' = [pc EXCEPT ![t] = "bl_store"]
    /\ UNCHANGED <<calls, writesOk, sharedVars,
                   op, openVars, dev, lightVars, err, writeVars, wlog, retval>>

\* line 116
BacklightLock(t) ==
    /\ pc[t] = "bl_lock"
    /\ pthread_mutex_lock(t)
    /\ pc' = [pc EXCEPT ![t] = "bl_store"]
    /\ UNCHANGED <<calls, writesOk, g_init, g_notification, g_backlight, g_buttons,
                   already_warned, heap, files, fds, warnings, initCount,
                   op, openVars, dev, lightVars, err, writeVars, wlog, retval>>

\* Mutant: the level is written to the file but not recorded.
BacklightStore_NoRecord(t) ==
    /\ pc[t] = "bl_store"
    /\ CallWriteInt(t, LCD_FILE, brightness[t], "bl_unlock")
    /\ UNCHANGED <<calls, writesOk, sharedVars, op, openVars, dev, lightVars, err, wlog,
                   retval>>

\* lines 117-118: record the level, call write_int(LCD_FILE, brightness)
BacklightStore(t) ==
    /\ pc[t] = "bl_store"
    /\ g_backlight' = brightness[t]
    /\ CallWriteInt(t, LCD_FILE, brightness[t], "bl_unlock")
    /\ UNCHANGED <<calls, writesOk, g_init, g_lock, g_notification, g_buttons,
                   already_warned, heap, files, fds, warnings, initCount,
                   op, openVars, dev, lightVars, err, wlog, retval>>

\* Mutant: the result of write_int is dropped.
BacklightUnlock_Swallow(t) ==
    /\ pc[t] = "bl_unlock"
    /\ pthread_mutex_unlock(t)
    /\ retval' = [retval EXCEPT ![t] = 0]
    /\ pc' = [pc EXCEPT ![t] = "ret"]
    /\ UNCHANGED <<calls, writesOk, g_init, g_notification, g_backlight, g_buttons,
                   already_warned, heap, files, fds, warnings, initCount,
                   op, openVars, dev, lightVars, err, writeVars, wlog>>

\* lines 119-120: unlock, return err
BacklightUnlock(t) ==
    /\ pc[t] = "bl_unlock"
    /\ pthread_mutex_unlock(t)
    /\ retval' = [retval EXCEPT ![t] = err[t]]
    /\ pc' = [pc EXCEPT ![t] = "ret"]
    /\ UNCHANGED <<calls, writesOk, g_init, g_notification, g_backlight, g_buttons,
                   already_warned, heap, files, fds, warnings, initCount,
                   op, openVars, dev, lightVars, err, writeVars, wlog>>

(***************************************************************************)
(* set_light_buttons                                                       *)
(***************************************************************************)
\* on ? BLN_LIGHT_ON : BLN_LIGHT_OFF
ButtonCode(o) == IF o # 0 THEN BLN_LIGHT_ON ELSE BLN_LIGHT_OFF

\* A caller invokes set_light on a live buttons handle; lines 125-126.
ButtonsCall(t, h, c, B) ==
    /\ pc[t] = "idle"
    /\ calls < B
    /\ calls' = calls + 1
    /\ h \in Live(heap)
    /\ heap[h].set_light = "set_light_buttons"
    /\ op' = [op EXCEPT ![t] = "set_light_buttons"]
    /\ state' = [state EXCEPT ![t] = [color |-> c]]
    /\ on' = [on EXCEPT ![t] = is_lit([color |-> c])]
    /\ pc' = [pc EXCEPT ![t] = "bt_lock"]
    /\ UNCHANGED <<writesOk, sharedVars, openVars, dev, brightness, err, writeVars,
                   wlog, retval>>

\* line 127
ButtonsLock(t) ==
    /\ pc[t] = "bt_lock"
    /\ pthread_mutex_lock(t)
    /\ pc' = [pc EXCEPT ![t] = "bt_store"]
    /\ UNCHANGED <<calls, writesOk, g_init, g_notification, g_backlight, g_buttons,
                   already_warned, heap, files, fds, warnings, initCount,
                   op, openVars, dev, lightVars, err, writeVars, wlog, retval>>

\* Mutant: the button code goes to the keyboard-backlight file.
ButtonsStore_KeyboardFile(t) ==
    /\ pc[t] = "bt_store"
    /\ g_buttons' = on[t]
    /\ CallWriteInt(t, KEYBOARD_FILE, ButtonCode(on[t]), "bt_unlock")
    /\ UNCHANGED <<calls, writesOk, g_init, g_lock, g_notification, g_backlight,
                   already_warned, heap, files, fds, warnings, initCount,
                   op, openVars, dev, lightVars, err, wlog, retval>>

\* lines 128-132: record the flag, call write_int(BUTTON_FILE, code)
ButtonsStore(t) ==
    /\ pc[t] = "bt_store"
    /\ g_buttons' = on[t]
    /\ CallWriteInt(t, BUTTON_FILE, ButtonCode(on[t]), "bt_unlock")
    /\ UNCHANGED <<calls, writesOk, g_init, g_lock, g_notification, g_backlight,
                   already_warned, heap, files, fds, warnings, initCount,
                   op, openVars, dev, lightVars, err, wlog, retval>>

\* lines 133-134: unlock, return err
ButtonsUnlock(t) ==
    /\ pc[t] = "bt_unlock"
    /\ pthread_mutex_unlock(t)
    /\ retval' = [retval EXCEPT ![t] = err[t]]
    /\ pc' = [pc EXCEPT ![t] = "ret"]
    /\ UNCHANGED <<calls, writesOk, g_init, g_notification, g_backlight, g_buttons,
                   already_warned, heap, files, fds, warnings, initCount,
                   op, openVars, dev, lightVars, err, writeVars, wlog>>

(***************************************************************************)
(* set_light_notifications                                                 *)
(***************************************************************************)
\* Mutant: the primary notification file gets the codes of the button file.
NotifyCode_Bln(st) == IF is_lit(st) # 0 THEN BLN_LIGHT_ON ELSE BLN_LIGHT_OFF

\* is_lit(state) ? BLN_NOTIFY_ON : BLN_NOTIFY_OFF
NotifyCode(st) == IF is_lit(st) # 0 THEN BLN_NOTIFY_ON ELSE BLN_NOTIFY_OFF

\* Mutant: any non-zero brightness triggers the secondary write.
SecondaryCond_AnyBrightness(b, st) ==
    \/ IsZeroU32(AddU32(IntToU32(b), st.color))
    \/ b > 0

\* Mutant: only the brightness triggers the secondary write.
SecondaryCond_OnlyBright(b, st) == b > 100

\* Mutant: the sum is taken over the RGB bits of the color only.
SumIsZero_Masked(b, st) ==
    IsZeroU32(AddU32(IntToU32(b), U32(st.color.hi % 256, st.color.lo)))

\* brightness+state->color == 0: brightness is converted to unsigned and the
\* sum is taken modulo 2^32
SumIsZero(b, st) == IsZeroU32(AddU32(IntToU32(b), st.color))

\* brightness+state->color == 0 || brightness > 100
SecondaryCond(b, st) ==
    \/ SumIsZero(b, st)
    \/ b > 100

\* state->color & 0x00ffffff ? CM7_ENABLE_BL : CM7_DISABLE_BL
SecondaryCode(st) ==
    IF (st.color.hi % 256) # 0 \/ st.color.lo # 0
    THEN CM7_ENABLE_BL ELSE CM7_DISABLE_BL

\* A caller invokes set_light on a live notifications handle.
NotificationsCall(t, h, c, B) ==
    /\ pc[t] = "idle"
    /\ calls < B
    /\ calls' = calls + 1
    /\ h \in Live(heap)
    /\ heap[h].set_light = "set_light_notifications"
    /\ op' = [op EXCEPT ![t] = "set_light_notifications"]
    /\ state' = [state EXCEPT ![t] = [color |-> c]]
    /\ pc' = [pc EXCEPT ![t] = "nt_lock"]
    /\ UNCHANGED <<writesOk, sharedVars, openVars, dev, brightness, on, err, writeVars,
                   wlog, retval>>

\* line 139
NotificationsLock(t) ==
    /\ pc[t] = "nt_lock"
    /\ pthread_mutex_lock(t)
    /\ pc' = [pc EXCEPT ![t] = "nt_store"]
    /\ UNCHANGED <<calls, writesOk, g_init, g_notification, g_backlight, g_buttons,
                   already_warned, heap, files, fds, warnings, initCount,
                   op, openVars, dev, lightVars, err, writeVars, wlog, retval>>

\* lines 141-146: copy the state, call write_int(NOTIFICATION_FILE, code)
NotificationsStore(t) ==
    /\ pc[t] = "nt_store"
    /\ g_notification' = state[t]
    /\ CallWriteInt(t, NOTIFICATION_FILE, NotifyCode(state[t]), "nt_heur")
    /\ UNCHANGED <<calls, writesOk, g_init, g_lock, g_backlight, g_buttons,
                   already_warned, heap, files, fds, warnings, initCount,
                   op, openVars, dev, lightVars, err, wlog, retval>>

\* lines 148-156: the heuristic holds, call write_int(CM7_NOTIFICATION_FILE, code)
NotificationsSecondary(t) ==
    /\ pc[t] = "nt_heur"
    /\ SecondaryCond(rgb_to_brightness(state[t]), state[t])
    /\ brightness' = [brightness EXCEPT ![t] = rgb_to_brightness(state[t])]
    /\ CallWriteInt(t, CM7_NOTIFICATION_FILE, SecondaryCode(state[t]),
                    "nt_unlock")
    /\ UNCHANGED <<calls, writesOk, sharedVars, op, openVars, dev, state, on, err, wlog, retval>>

\* lines 148-150, 158: the heuristic does not hold
NotificationsSkip(t) ==
    /\ pc[t] = "nt_heur"
    /\ ~SecondaryCond(rgb_to_brightness(state[t]), state[t])
    /\ brightness' = [brightness EXCEPT ![t] = rgb_to_brightness(state[t])]
    /\ pc' = [pc EXCEPT ![t] = "nt_unlock"]
    /\ UNCHANGED <<calls, writesOk, sharedVars, op, openVars, dev, state, on, err, writeVars,
                   wlog, retval>>

\* Mutant: the result of the last write_int is returned.
NotificationsUnlock_ReturnsErr(t) ==
    /\ pc[t] = "nt_unlock"
    /\ pthread_mutex_unlock(t)
    /\ retval' = [retval EXCEPT ![t] = err[t]]
    /\ pc' = [pc EXCEPT ![t] = "ret"]
    /\ UNCHANGED <<calls, writesOk, g_init, g_notification, g_backlight, g_buttons,
                   already_warned, heap, files, fds, warnings, initCount,
                   op, openVars, dev, lightVars, err, writeVars, wlog>>

\* lines 160-162: unlock, return 0
NotificationsUnlock(t) ==
    /\ pc[t] = "nt_unlock"
    /\ pthread_mutex_unlock(t)
    /\ retval' = [retval EXCEPT ![t] = 0]
    /\ pc' = [pc EXCEPT ![t] = "ret"]
    /\ UNCHANGED <<calls, writesOk, g_init, g_notification, g_backlight, g_buttons,
                   already_warned, heap, files, fds, warnings, initCount,
                   op, openVars, dev, lightVars, err, writeVars, wlog>>

(***************************************************************************)
(* Return to the caller; the frame of the call is dropped.                 *)
(***************************************************************************)
Return(t) ==
    /\ pc[t] = "ret"
    /\ pc' = [pc EXCEPT ![t] = "idle"]
    /\ op' = [op EXCEPT ![t] = ""]
    /\ name' = [name EXCEPT ![t] = ""]
    /\ set_light' = [set_light EXCEPT ![t] = ""]
    /\ device' = [device EXCEPT ![t] = NULL]
    /\ dev' = [dev EXCEPT ![t] = NULL]
    /\ state' = [state EXCEPT ![t] = NoState]
    /\ brightness' = [brightness EXCEPT ![t] = 0]
    /\ on' = [on EXCEPT ![t] = 0]
    /\ err' = [err EXCEPT ![t] = 0]
    /\ errno' = [errno EXCEPT ![t] = 0]
    /\ wlog' = [wlog EXCEPT ![t] = <<>>]
    /\ retval' = [retval EXCEPT ![t] = 0]
    /\ UNCHANGED <<calls, writesOk, sharedVars, ra, path, value, fd, amt>>

(***************************************************************************)
(* Specifications.                                                         *)
(***************************************************************************)
\* A step of thread t: colors from C, open errnos from E, short-write lengths
\* from K, at most B calls made by the callers (the parameter B of the actions
\* that enter a call).
\* Colors of the concurrent specification: 0x00000000, 0x00FFFFFF, 0xFF000000.
ConcColors == {U32(0, 0), U32(255, 65535), U32(65280, 0)}

Step(t, C, E, K, B) ==
    \/ \E n \in Names : OpenCall(t, n, B)
    \/ \E n \in Names : OpenCallNoMatch(t, n, B)
    \/ OnceBegin(t)
    \/ InitGlobals(t)
    \/ OnceEnd(t)
    \/ OncePass(t)
    \/ OpenAlloc(t)
    \/ OpenAllocNull(t)
    \/ \E d \in {NULL} \cup Addrs : CloseLights(t, d, B)
    \/ \E h \in Addrs, c \in C : BacklightCall(t, h, c, B)
    \/ BacklightLock(t)
    \/ BacklightStore(t)
    \/ BacklightUnlock(t)
    \/ \E h \in Addrs, c \in C : ButtonsCall(t, h, c, B)
    \/ ButtonsLock(t)
    \/ ButtonsStore(t)
    \/ ButtonsUnlock(t)
    \/ \E h \in Addrs, c \in C : NotificationsCall(t, h, c, B)
    \/ NotificationsLock(t)
    \/ NotificationsStore(t)
    \/ NotificationsSecondary(t)
    \/ NotificationsSkip(t)
    \/ NotificationsUnlock(t)
    \/ WriteIntOpen(t)
    \/ \E e \in E : WriteIntOpenFail(t, e)
    \/ \E k \in K : WriteIntWrite(t, k)
    \/ \E e \in WriteErrnos : WriteIntWriteFail(t, e)
    \/ WriteIntClose(t)
    \/ Return(t)

\* Concurrent callers; a write that does not fail is complete.
Next == \E t \in Threads : Step(t, ConcColors, {13}, {0}, MaxCalls)

Spec == Init /\ [][Next]_vars

\* One caller making one call fewer; every color and errno; a write that does
\* not fail is complete or short by one or two bytes.
NextSeq == Step(1, Colors, OpenErrnos, 0..2, MaxCalls - 1)

SpecSeq == Init /\ [][NextSeq]_vars

\* Concurrent callers making one call fewer than in Spec.
NextLive == \E t \in Threads : Step(t, ConcColors, {13}, {0}, MaxCalls - 1)

\* Every system call of a started call returns, so a thread inside a call
\* takes its next step (weak fairness); pthread_mutex_lock grants the mutex
\* fairly, so a thread that finds it free again and again gets it (strong
\* fairness).  A caller at rest need not call again.
Fairness ==
    \A t \in Threads :
        /\ WF_vars(pc[t] # "idle" /\ Step(t, ConcColors, {13}, {0}, MaxCalls - 1))
        /\ SF_vars(BacklightLock(t) \/ ButtonsLock(t) \/ NotificationsLock(t))

SpecLive == Init /\ [][NextLive]_vars /\ Fairness

(***************************************************************************)
(* Properties.                                                             *)
(***************************************************************************)
\* Thread t is between the lock and the unlock of a set_light handler.
InCritical(t) ==
    pc[t] \in {"bl_store", "bl_unlock", "bt_store", "bt_unlock",
               "nt_store", "nt_heur", "nt_unlock",
               "wi_open", "wi_write", "wi_close"}

\* C1: at most one thread is between lock and unlock of set_light_backlight,
\* set_light_buttons or set_light_notifications, whatever the devices are,
\* and that thread owns g_lock.
C1_MutualExclusion ==
    \A t, u \in Threads :
        InCritical(t) /\ InCritical(u) => t = u /\ g_lock = t

\* C1 witness: one thread is inside the critical section of setNotification
\* while another has called setBacklight and waits for the lock.
C1_Witness ==
    \E t, u \in Threads :
        /\ InCritical(t)
        /\ op[t] = "set_light_notifications"
        /\ pc[u] = "bl_lock"

\* C2: init_globals runs at most once, no second thread is ever inside it, and
\* a thread of open_lights that is past pthread_once (allocating, or returning
\* 0) finds the single execution completed.
C2_InitOnce ==
    /\ initCount
         + Cardinality({t \in Threads : pc[t] = "init_globals"}) <= 1
    /\ \A t \in Threads :
          (\/ pc[t] = "open_alloc"
           \/ (pc[t] = "ret" /\ op[t] = "open_lights" /\ retval[t] = 0))
          => initCount = 1 /\ g_init = ONCE_DONE

\* C2 witness: two threads that raced through open are both past pthread_once.
C2_Witness ==
    \E t, u \in Threads :
        /\ t # u
        /\ pc[t] = "open_alloc"
        /\ pc[u] = "open_alloc"
        /\ initCount = 1

\* The three recognized device names.
RecognizedNames ==
    {LIGHT_ID_BACKLIGHT, LIGHT_ID_BUTTONS, LIGHT_ID_NOTIFICATIONS}

\* C3: a call of open with a name that is none of the three recognized ones
\* returns -EINVAL, allocates no handle, leaves *device unwritten and changes
\* neither the shared state nor the handles of other devices.
C3_OpenUnknownName ==
    [][\A t \in Threads :
          (/\ pc[t] = "idle"
           /\ op'[t] = "open_lights"
           /\ name'[t] \notin RecognizedNames)
          => /\ pc'[t] = "ret"
             /\ retval'[t] = 0 - EINVAL
             /\ device'[t] = device[t]
             /\ heap' = heap
             /\ UNCHANGED sharedVars]_vars

\* C3 witness: open of an unknown name has returned -EINVAL while a handle of
\* another device is open.
C3_Witness ==
    \E t \in Threads :
        /\ pc[t] = "ret"
        /\ op[t] = "open_lights"
        /\ name[t] \notin RecognizedNames
        /\ retval[t] = 0 - EINVAL
        /\ device[t] = NULL
        /\ Live(heap) # {}

\* The handler a recognized name stands for.
ExpectedHandler(n) ==
    CASE n = LIGHT_ID_BACKLIGHT -> "set_light_backlight"
      [] n = LIGHT_ID_BUTTONS -> "set_light_buttons"
      [] n = LIGHT_ID_NOTIFICATIONS -> "set_light_notifications"
      [] OTHER -> "none"

\* C4: the step of open_lights that calls malloc returns 0 and publishes in
\* *device one handle that was not live before, bound to the handler of the
\* name and to close_lights; the handles already live stay as they are.  Only
\* recognized names reach that step.
C4_OpenRecognizedName ==
    [][\A t \in Threads :
          (pc[t] = "open_alloc" /\ pc'[t] # "open_alloc")
          => /\ name[t] \in RecognizedNames
             /\ pc'[t] = "ret"
             /\ retval'[t] = 0
             /\ device'[t] \in Addrs \ Live(heap)
             /\ Live(heap') = Live(heap) \cup {device'[t]}
             /\ heap'[device'[t]] = [set_light |-> ExpectedHandler(name[t]),
                                     close |-> "close_lights"]
             /\ \A a \in Live(heap) : heap'[a] = heap[a]]_vars

\* A logged write_int call whose open succeeded and whose write took every
\* byte of the formatted value.
CompleteWrite(w) == w.opened /\ w.amt = Len(sprintf(w.value))

\* C5: setBacklight and setButtons make one write_int call and return its
\* result: 0 when the file was opened and the write did not fail, the negated
\* errno of the failed open or write otherwise.
C5_ReturnsWriterResult ==
    \A t \in Threads :
        (pc[t] = "ret"
         /\ op[t] \in {"set_light_backlight", "set_light_buttons"})
        => /\ Len(wlog[t]) = 1
           /\ retval[t] = wlog[t][1].ret
           /\ (wlog[t][1].opened /\ wlog[t][1].amt # -1) => retval[t] = 0
           /\ ~wlog[t][1].opened => (0 - retval[t]) \in OpenErrnos
           /\ (wlog[t][1].opened /\ wlog[t][1].amt = -1)
                 => (0 - retval[t]) \in WriteErrnos

\* C5 witness: setBacklight returns the negative code of a failed write.
C5_Witness ==
    \E t \in Threads :
        /\ pc[t] = "ret"
        /\ op[t] = "set_light_backlight"
        /\ wlog[t][1].opened
        /\ wlog[t][1].amt = -1
        /\ retval[t] < 0

\* C6: setNotification returns 0 whatever its writes returned.
C6_NotificationAlwaysZero ==
    \A t \in Threads :
        (pc[t] = "ret" /\ op[t] = "set_light_notifications")
        => retval[t] = 0

\* C6 witness: setNotification returns 0 after both of its writes failed.
C6_Witness ==
    \E t \in Threads :
        /\ pc[t] = "ret"
        /\ op[t] = "set_light_notifications"
        /\ Len(wlog[t]) = 2
        /\ wlog[t][1].ret < 0
        /\ wlog[t][2].ret < 0
        /\ retval[t] = 0

\* (77*R + 150*G + 29*B) >> 8 with R, G, B the bytes 2, 1, 0 of a color.
Luma(c) ==
    (77 * (c.hi % 256) + 150 * (c.lo \div 256) + 29 * (c.lo % 256)) \div 256

\* C7: once write_int has returned to a handler, with success or not, the
\* recorded state is the requested one: g_backlight the requested brightness,
\* g_buttons non-zero iff the requested color is, g_notification the copy.
C7_NoRollback ==
    \A t \in Threads :
        /\ pc[t] = "bl_unlock" => g_backlight = Luma(state[t].color)
        /\ pc[t] = "bt_unlock" =>
              ((g_buttons # 0) <=> ~IsZeroU32(state[t].color))
        /\ pc[t] \in {"nt_heur", "nt_unlock"} => g_notification = state[t]

\* C7 witness: the write of setBacklight(0x00000000) failed, nothing was ever
\* written to the backlight file, and g_backlight is 0, no longer 255.
C7_Witness ==
    \E t \in Threads :
        /\ pc[t] = "bl_unlock"
        /\ err[t] < 0
        /\ files[LCD_FILE] = <<>>
        /\ g_backlight = 0

\* C8: the brightness setBacklight computes is Luma of the color, lies in
\* 0..255, and is the value of its one write_int call, on the backlight file;
\* a complete write leaves that number in the file.  0x00FFFFFF gives 255 and
\* 0x00000000 gives 0.
C8_BacklightBrightness ==
    \A t \in Threads :
        op[t] = "set_light_backlight" =>
           /\ brightness[t] = Luma(state[t].color)
           /\ brightness[t] \in 0..255
           /\ state[t].color = U32(255, 65535) => brightness[t] = 255
           /\ state[t].color = U32(0, 0) => brightness[t] = 0
           /\ pc[t] = "ret" =>
                 /\ Len(wlog[t]) = 1
                 /\ wlog[t][1].path = LCD_FILE
                 /\ wlog[t][1].value = Luma(state[t].color)
                 /\ CompleteWrite(wlog[t][1]) =>
                       ParseInt(files[LCD_FILE]) = Luma(state[t].color)

\* C8 witness: setBacklight(0x00FFFFFF) has written "255\n".
C8_Witness ==
    \E t \in Threads :
        /\ pc[t] = "ret"
        /\ op[t] = "set_light_backlight"
        /\ state[t].color = U32(255, 65535)
        /\ CompleteWrite(wlog[t][1])
        /\ files[LCD_FILE] = <<"2", "5", "5", "\n">>

\* C9: the flag setButtons computes is non-zero iff the whole 32-bit color is;
\* its one write_int call is on the button file with 1 when lit and 2 when
\* the color is 0, and a complete write leaves that code in the file.
C9_ButtonsCode ==
    \A t \in Threads :
        op[t] = "set_light_buttons" =>
           /\ (on[t] # 0) <=> ~IsZeroU32(state[t].color)
           /\ pc[t] = "ret" =>
                 /\ Len(wlog[t]) = 1
                 /\ wlog[t][1].path = BUTTON_FILE
                 /\ wlog[t][1].value
                      = (IF IsZeroU32(state[t].color) THEN 2 ELSE 1)
                 /\ CompleteWrite(wlog[t][1]) =>
                       ParseInt(files[BUTTON_FILE]) = wlog[t][1].value

\* C9 witness: setButtons(0xFF000000), a color with top-byte bits only, has
\* written "1\n".
C9_Witness ==
    \E t \in Threads :
        /\ pc[t] = "ret"
        /\ op[t] = "set_light_buttons"
        /\ state[t].color = U32(65280, 0)
        /\ CompleteWrite(wlog[t][1])
        /\ files[BUTTON_FILE] = <<"1", "\n">>

\* brightness + C = 0 (a sum of two non-negative numbers) or brightness > 100
HeuristicHolds(c) == (Luma(c) = 0 /\ IsZeroU32(c)) \/ Luma(c) > 100

\* The write_int calls of thread t on the secondary notification file.
SecondaryWrites(t) ==
    {i \in 1..Len(wlog[t]) : wlog[t][i].path = CM7_NOTIFICATION_FILE}

\* C10: setNotification(C) calls write_int on the secondary file iff the
\* heuristic holds for C, then once, after the primary write, with 1 when the
\* low 24 bits of C are non-zero and 2 otherwise; 0x00000000 writes 2 and
\* 0x00FF0000 makes no secondary write.
C10_SecondaryHeuristic ==
    \A t \in Threads :
        (op[t] = "set_light_notifications" /\ pc[t] \in {"nt_unlock", "ret"})
        => /\ (SecondaryWrites(t) # {}) <=> HeuristicHolds(state[t].color)
           /\ SecondaryWrites(t) \subseteq {2}
           /\ \A i \in SecondaryWrites(t) :
                 wlog[t][i].value
                   = (IF state[t].color.hi % 256 # 0 \/ state[t].color.lo # 0
                      THEN 1 ELSE 2)
           /\ state[t].color = U32(0, 0) =>
                 (SecondaryWrites(t) = {2} /\ wlog[t][2].value = 2)
           /\ state[t].color = U32(255, 0) => SecondaryWrites(t) = {}

\* C10 witness: setNotification(0x00000000) has written 2 to the secondary
\* file.
C10_Witness ==
    \E t \in Threads :
        /\ pc[t] = "ret"
        /\ op[t] = "set_light_notifications"
        /\ state[t].color = U32(0, 0)
        /\ Len(wlog[t]) = 2
        /\ wlog[t][2].path = CM7_NOTIFICATION_FILE
        /\ CompleteWrite(wlog[t][2])
        /\ files[CM7_NOTIFICATION_FILE] = <<"2", "\n">>

\* C11 as stated: whenever set_light_notifications finds brightness + color
\* to be 0, the color is 0.
C11_SumZeroOnlyForZero ==
    \A t \in Threads :
        (/\ op[t] = "set_light_notifications"
         /\ pc[t] \in {"nt_unlock", "ret"}
         /\ SumIsZero(brightness[t], state[t]))
        => IsZeroU32(state[t].color)

\* C11, amended: whenever set_light_notifications finds brightness + color to
\* be 0, the color is 0 or it is 0xFFFFFF1B, whose brightness 229 makes the
\* 32-bit sum wrap to 0.
C11_SumZeroOnlyForZeroOrWrap ==
    \A t \in Threads :
        (/\ op[t] = "set_light_notifications"
         /\ pc[t] \in {"nt_unlock", "ret"}
         /\ SumIsZero(brightness[t], state[t]))
        => \/ IsZeroU32(state[t].color)
           \/ (state[t].color = U32(65535, 65307) /\ brightness[t] = 229)

\* C11 witness: setNotification(0xFFFFFF1B) found the sum to be 0.
C11_Witness ==
    \E t \in Threads :
        /\ op[t] = "set_light_notifications"
        /\ pc[t] = "nt_unlock"
        /\ state[t].color = U32(65535, 65307)
        /\ SumIsZero(brightness[t], state[t])

\* C12: a close_lights call returns 0 and leaves the init flag, the lock, the
\* notification copy, the recorded backlight level and button flag, the
\* warning flag, every control file and every descriptor as they were; with a
\* handle it frees that handle and no other, with NULL it leaves the heap
\* alone; the calls of the other threads are not disturbed.
C12_CloseFrame ==
    [][\A t \in Threads :
          (pc[t] = "idle" /\ pc'[t] = "ret" /\ op'[t] = "close_lights")
          => /\ retval'[t] = 0
             /\ UNCHANGED <<g_init, g_lock, g_notification, g_backlight,
                            g_buttons, already_warned, files, fds, warnings,
                            initCount>>
             /\ dev'[t] = NULL => heap' = heap
             /\ dev'[t] # NULL => /\ heap[dev'[t]] # Free
                                  /\ heap' = [heap EXCEPT ![dev'[t]] = Free]
             /\ \A u \in Threads \ {t} :
                    /\ pc'[u] = pc[u]
                    /\ state'[u] = state[u]
                    /\ wlog'[u] = wlog[u]
                    /\ err'[u] = err[u]]_vars

\* C12 witness: a handle was closed after the backlight was set to 0, while
\* another handle is still open; the recorded level is still 0.
C12_Witness ==
    \E t \in Threads :
        /\ pc[t] = "ret"
        /\ op[t] = "close_lights"
        /\ dev[t] # NULL
        /\ heap[dev[t]] = Free
        /\ Live(heap) # {}
        /\ g_backlight = 0
        /\ files[LCD_FILE] # <<>>
        /\ retval[t] = 0

\* The control files a call of operation o may write.
FilesOf(o) ==
    CASE o = "set_light_backlight" -> {LCD_FILE}
      [] o = "set_light_buttons" -> {BUTTON_FILE}
      [] o = "set_light_notifications" ->
             {NOTIFICATION_FILE, CM7_NOTIFICATION_FILE}
      [] OTHER -> {}

\* C13: every write_int call of an operation names a file of that operation,
\* the keyboard-backlight file is never written, and every step of a call
\* changes no control file but those of its operation and no recorded state
\* but its own: g_backlight for set_light_backlight, g_buttons for
\* set_light_buttons, g_notification for set_light_notifications, none for
\* open_lights and close_lights.
C13_PerDeviceFrame ==
    /\ [](/\ files[KEYBOARD_FILE] = <<>>
          /\ \A t \in Threads : \A i \in 1..Len(wlog[t]) :
                 wlog[t][i].path \in FilesOf(op[t])
          /\ \A t \in Threads :
                 pc[t] \in {"wi_open", "wi_write", "wi_close"}
                 => path[t] \in FilesOf(op[t]))
    /\ [][\A t \in Threads :
            pc'[t] # pc[t]
            => LET o == IF pc[t] = "idle" THEN op'[t] ELSE op[t]
               IN  /\ \A f \in Files \ FilesOf(o) : files'[f] = files[f]
                   /\ o # "set_light_backlight" => g_backlight' = g_backlight
                   /\ o # "set_light_buttons" => g_buttons' = g_buttons
                   /\ o # "set_light_notifications"
                      => g_notification' = g_notification]_vars

\* C13 witness: a set_light_buttons call has written the button file and
\* recorded the flag; the backlight level, the notification copy and the
\* other files are as they were at the start.
C13_Witness ==
    \E t \in Threads :
        /\ pc[t] = "ret"
        /\ op[t] = "set_light_buttons"
        /\ files[BUTTON_FILE] # <<>>
        /\ g_buttons # 0
        /\ \A f \in Files \ {BUTTON_FILE} : files[f] = <<>>
        /\ g_backlight = 255
        /\ g_notification = NoState

\* The operations installed as set_light.
SetLightOps ==
    {"set_light_backlight", "set_light_buttons", "set_light_notifications"}

\* Thread t is at the pthread_mutex_lock call of a handler.
AtLock(t) == pc[t] \in {"bl_lock", "bt_lock", "nt_lock"}

\* C14: a thread between the lock and the unlock of a handler owns g_lock,
\* a thread that waits for the lock or is outside a call does not, so the lock
\* is never left held by a returned call; a thread gets the lock only by the
\* lock step of its call and gives it up only by the step that returns,
\* whether or not a write failed or the secondary write was skipped; and under
\* fair scheduling every started set_light call returns.
C14_LockDisciplineAndProgress ==
    /\ [](\A t \in Threads :
              /\ InCritical(t) => g_lock = t
              /\ (AtLock(t) \/ pc[t] \in {"idle", "ret"}) => g_lock # t)
    /\ [][\A t \in Threads :
            /\ (g_lock # t /\ g_lock' = t) => (AtLock(t) /\ ~AtLock(t)')
            /\ (g_lock = t /\ g_lock' # t)
               => (/\ g_lock' = PTHREAD_MUTEX_INITIALIZER
                   /\ pc'[t] = "ret")]_vars
    /\ \A t \in Threads :
           (op[t] \in SetLightOps /\ pc[t] \notin {"idle", "ret"})
           ~> (pc[t] = "ret" /\ g_lock # t)

\* Thread t takes the step in which open() fails and write_int returns.
OpenFails(t) == pc[t] = "wi_open" /\ pc'[t] \notin {"wi_open", "wi_write", "crashed"}

\* C15: the warning has been emitted at most once, and exactly when
\* already_warned is set; a failed open emits it if and only if no open failed
\* before, and returns a negative code in either case; nothing else emits it.
C15_OneShotWarning ==
    /\ [](/\ warnings <= 1
          /\ (warnings = 1) <=> (already_warned = 1)
          /\ \A t \in Threads : \A i \in 1..Len(wlog[t]) :
                 ~wlog[t][i].opened
                 => (warnings = 1 /\ wlog[t][i].ret < 0))
    /\ [][/\ \A t \in Threads :
               OpenFails(t)
               => /\ warnings' = 1
                  /\ (warnings' = warnings + 1) <=> (already_warned = 0)
                  /\ Len(wlog'[t]) = Len(wlog[t]) + 1
                  /\ ~wlog'[t][Len(wlog'[t])].opened
                  /\ wlog'[t][Len(wlog'[t])].ret < 0
          /\ warnings' # warnings => \E t \in Threads : OpenFails(t)]_vars

\* C15 witness: both opens of a set_light_notifications call failed, both
\* write_int calls returned a negative code, one warning was emitted.
C15_Witness ==
    \E t \in Threads :
        /\ pc[t] = "ret"
        /\ op[t] = "set_light_notifications"
        /\ Len(wlog[t]) = 2
        /\ ~wlog[t][1].opened /\ wlog[t][1].ret < 0
        /\ ~wlog[t][2].opened /\ wlog[t][2].ret < 0
        /\ warnings = 1

\* The write_int calls of thread t on the primary notification file.
PrimaryWrites(t) ==
    {i \in 1..Len(wlog[t]) : wlog[t][i].path = NOTIFICATION_FILE}

\* Thread t is inside write_int, called to return to position r.
InWriteInt(t, r) == pc[t] \in {"wi_open", "wi_write", "wi_close"} /\ ra[t] = r

\* C16: in a set_light_notifications call the copy of the state is stored
\* when the primary write_int call starts; that call is the first and the only
\* one on the primary file, with value 1 if the 32-bit color is non-zero and 0
\* otherwise; a secondary call comes after it; and once the heuristic has been
\* evaluated the number of write_int calls is 2 or 1 by the color alone,
\* whatever the primary call returned.
C16_PrimaryWrite ==
    \A t \in Threads :
        op[t] = "set_light_notifications"
        => LET code == IF IsZeroU32(state[t].color) THEN 0 ELSE 1
           IN  /\ pc[t] \in {"nt_lock", "nt_store"} => wlog[t] = <<>>
               /\ InWriteInt(t, "nt_heur")
                  => /\ wlog[t] = <<>>
                     /\ g_notification = state[t]
                     /\ path[t] = NOTIFICATION_FILE
                     /\ value[t] = code
               /\ (pc[t] \in {"nt_heur", "nt_unlock", "ret"}
                   \/ InWriteInt(t, "nt_unlock"))
                  => /\ PrimaryWrites(t) = {1}
                     /\ wlog[t][1].value = code
                     /\ \A i \in SecondaryWrites(t) : i > 1
               /\ pc[t] = "nt_heur" => Len(wlog[t]) = 1
               /\ InWriteInt(t, "nt_unlock")
                  => (Len(wlog[t]) = 1 /\ path[t] = CM7_NOTIFICATION_FILE)
               /\ pc[t] \in {"nt_unlock", "ret"}
                  => Len(wlog[t]) = IF HeuristicHolds(state[t].color)
                                    THEN 2 ELSE 1

\* C16 witness: the primary write_int call of a lit color failed and the
\* secondary call was made all the same.
C16_Witness ==
    \E t \in Threads :
        /\ op[t] = "set_light_notifications"
        /\ pc[t] = "ret"
        /\ Len(wlog[t]) = 2
        /\ wlog[t][1].path = NOTIFICATION_FILE
        /\ wlog[t][1].value = 1
        /\ wlog[t][1].ret < 0
        /\ wlog[t][2].path = CM7_NOTIFICATION_FILE

\* The positions from which a handler calls write_int.
CallSites == {"bl_store", "bt_store", "nt_store", "nt_heur"}

\* C17: a write_int call is entered at open() from a handler only, goes from
\* open() either to the one write() or back to the caller, from write() to
\* close() and from close() back to the caller, so it opens once and writes
\* at most once; the descriptors open at any time are those of the calls that
\* are between open() and close(), so none outlives its call; the result is 0
\* if and only if the open succeeded and write() did not return -1, however
\* few bytes it took, and negative otherwise.
C17_WriteInt ==
    /\ [](/\ fds = {fd[t] : t \in {u \in Threads :
                                      pc[u] \in {"wi_write", "wi_close"}}}
          /\ \A t \in Threads :
                 pc[t] \notin {"wi_write", "wi_close"} => fd[t] = -1
          /\ \A t \in Threads : \A i \in 1..Len(wlog[t]) :
                 LET w == wlog[t][i]
                 IN  /\ (w.ret = 0) <=> (w.opened /\ w.amt # -1)
                     /\ w.ret <= 0
                     /\ ~w.opened => w.amt = 0)
    /\ [][\A t \in Threads :
            /\ (pc'[t] = "wi_open" /\ pc[t] # "wi_open")
               => pc[t] \in CallSites
            /\ (pc[t] = "wi_open" /\ pc'[t] # "wi_open")
               => \/ (pc'[t] = "wi_write" /\ wlog'[t] = wlog[t])
                  \/ (/\ pc'[t] = ra[t]
                      /\ files' = files
                      /\ Len(wlog'[t]) = Len(wlog[t]) + 1)
            /\ (pc[t] = "wi_write" /\ pc'[t] # "wi_write")
               => (pc'[t] = "wi_close" /\ wlog'[t] = wlog[t])
            /\ (pc[t] = "wi_close" /\ pc'[t] # "wi_close")
               => /\ pc'[t] = ra[t]
                  /\ fd[t] \notin fds'
                  /\ files' = files
                  /\ Len(wlog'[t]) = Len(wlog[t]) + 1
            /\ pc[t] \notin {"wi_open", "wi_close"} => wlog'[t] \in {wlog[t], <<>>}
            /\ pc[t] # "wi_write" => files' = files \/ pc'[t] = pc[t]]_vars

\* C17 witness: a write_int call whose write() took some but not all of the
\* bytes returned 0, and no descriptor is open.
C17_Witness ==
    \E t \in Threads :
        /\ pc[t] = "ret"
        /\ Len(wlog[t]) >= 1
        /\ wlog[t][1].opened
        /\ wlog[t][1].amt > 0
        /\ wlog[t][1].amt < Len(sprintf(wlog[t][1].value))
        /\ wlog[t][1].ret = 0
        /\ fds = {}

\* C18: whenever g_lock is free and every write_int call so far opened its
\* file and wrote every byte, the backlight file, once written, holds the
\* recorded backlight level (and before that the level is the initial 255),
\* and the button file holds 1 exactly when the recorded button flag is
\* non-zero.
C18_MemoryFileAgreement ==
    (g_lock = PTHREAD_MUTEX_INITIALIZER /\ writesOk)
    => /\ files[LCD_FILE] # <<>> => files[LCD_FILE] = sprintf(g_backlight)
       /\ files[LCD_FILE] # <<>> => ParseInt(files[LCD_FILE]) = g_backlight
       /\ files[LCD_FILE] = <<>> => g_backlight = 255
       /\ (ParseInt(files[BUTTON_FILE]) = 1) <=> (g_buttons # 0)

\* C18 witness: two threads called set_light_backlight with different levels
\* at the same time and both have returned; the lock is free, every write was
\* complete, and the file and g_backlight hold level 0 of one of the calls.
C18_Witness ==
    /\ g_lock = PTHREAD_MUTEX_INITIALIZER
    /\ writesOk
    /\ \A t \in Threads : pc[t] = "ret" /\ op[t] = "set_light_backlight"
    /\ \E t, u \in Threads : brightness[t] = 0 /\ brightness[u] = 255
    /\ ParseInt(files[LCD_FILE]) = 0
    /\ g_backlight = 0

\* No thread is inside a call.
NoCallInProgress == \A t \in Threads : pc[t] \in {"idle", "ret"}

\* C19: when no call is in progress and every write_int call so far opened
\* its file and wrote every byte, a primary notification file holding 0 goes
\* with a secondary file holding 2, and a secondary file holding 1 goes with a
\* primary file holding 1.
C19_NotificationFilesCoherent ==
    (NoCallInProgress /\ writesOk)
    => /\ ParseInt(files[NOTIFICATION_FILE]) = BLN_NOTIFY_OFF
          => ParseInt(files[CM7_NOTIFICATION_FILE]) = CM7_DISABLE_BL
       /\ ParseInt(files[CM7_NOTIFICATION_FILE]) = CM7_ENABLE_BL
          => ParseInt(files[NOTIFICATION_FILE]) = BLN_NOTIFY_ON

\* C19 witness: setNotification(0) has returned after complete writes; the
\* primary file holds 0 and the secondary file holds 2.
C19_Witness ==
    /\ NoCallInProgress
    /\ writesOk
    /\ \E t \in Threads :
           /\ pc[t] = "ret"
           /\ op[t] = "set_light_notifications"
           /\ IsZeroU32(state[t].color)
    /\ files[NOTIFICATION_FILE] = <<"0", "\n">>
    /\ files[CM7_NOTIFICATION_FILE] = <<"2", "\n">>

\* Thread t is inside a set_light handler, waiting for the lock or holding it.
InSetLight(t) == AtLock(t) \/ InCritical(t)

\* C20: while a thread is about to run or has just run init_globals, the
\* lock is free and no thread is inside a set_light handler; the step that
\* runs init_globals finds the mutex unlocked and leaves it so; and a live
\* handle or a handler in progress exists only once pthread_once has
\* completed.
C20_InitNotDuringSetLight ==
    /\ [](/\ (\E t \in Threads : pc[t] \in {"init_globals", "once_end"})
             => /\ g_lock = PTHREAD_MUTEX_INITIALIZER
                /\ \A u \in Threads : ~InSetLight(u)
                /\ Live(heap) = {}
          /\ (Live(heap) # {} \/ \E u \in Threads : InSetLight(u))
             => (g_init = ONCE_DONE /\ initCount = 1))
    /\ [][initCount' # initCount
          => /\ g_lock = PTHREAD_MUTEX_INITIALIZER
             /\ g_lock' = PTHREAD_MUTEX_INITIALIZER
             /\ \A u \in Threads : ~InSetLight(u)]_vars

\* C20 witness: a thread is inside a handler holding the lock while another
\* one, in open_lights, has passed pthread_once without running init_globals.
C20_Witness ==
    \E t, u \in Threads :
        /\ InCritical(t)
        /\ g_lock = t
        /\ op[u] = "open_lights"
        /\ pc[u] = "open_alloc"
        /\ g_init = ONCE_DONE
        /\ initCount = 1

====
